---- MODULE Spec2Model ----
(***************************************************************************)
(* Include Resolver (tools/includes_list.py) and Enrichment Aggregator     *)
(* (tools/enhancements.py) of mcp-adt.                                     *)
(*                                                                         *)
(* Strings are sequences of character codes, so that upper-casing,         *)
(* decoration stripping and Python's code-point ordering of str are        *)
(* computed rather than assumed.  A source text is the sequence of the     *)
(* tokens of its lines of the shape "INCLUDE <token>." (every other line   *)
(* is dropped by _parse_includes and carries no information here).         *)
(***************************************************************************)
EXTENDS Integers, Sequences, FiniteSets, TLC

\* ------------------------------------------------------------------ bounds
\* total number of include statements over all sources of the backing store
MaxEdges == 3
\* the same, and the number of get_includes_list calls in one behaviour, for
\* the behaviours with several calls
MaxCallEdges == 2
MaxCalls == 3
\* include statements of the backing store, and source blocks of one
\* enrichment payload, in the behaviours of get_enhancements
MaxEnhEdges == 2
MaxFragments == 1
MaxAggEdges == 3
\* characters of a source text handed to the decoders
MaxTextLen == 3
\* source elements of a payload of the listing endpoint handed to the decoders
MaxBlocks == 2

\* ------------------------------------------------------------------ inputs
\* root names handed to get_includes_list: "", "a", "B"
RootNames == { <<>>, <<97>>, <<66>> }
\* object_type arguments: two valid ones and one the validation rejects
ObjectTypes == { "program", "include", "class" }
\* tokens of include statements in sources: a  <A>  B  <>
Tokens == { <<97>>, <<60, 65, 62>>, <<66>>, <<60, 62>> }

\* the program argument of get_enhancements, an optional value being a
\* sequence of length 0 or 1: None, "", "P"
Hints == { << >>, << << >> >>, << <<80>> >> }
\* object_name arguments of get_enhancements: "", "a"
EnhRootNames == { << >>, <<97>> }
\* adtcore:uri values of an include:contextRef element: "/Q", "/R"
ContextUris == { <<47, 81>>, <<47, 82>> }
\* tokens and fetch failures of the sources read below get_enhancements
EnhTokens == { <<97>>, <<66>> }
\* the <enh:source> blocks an enrichment payload is made of
Blocks == { "enh:source" }

RECURSIVE SeqsUpTo(_, _)
SeqsUpTo(S, n) ==
  IF n = 0 THEN { <<>> }
  ELSE LET shorter == SeqsUpTo(S, n - 1)
       IN  shorter \cup { Append(s, x) : s \in shorter, x \in S }

Range(s) == { s[i] : i \in 1..Len(s) }

\* ------------------------------------------------------- string functions
\* str.upper() on the ASCII range
Upper(s) == [ i \in 1..Len(s) |-> IF s[i] \in 97..122 THEN s[i] - 32 ELSE s[i] ]

\* the character class [A-Z0-9_<>'] of the include regex
NameChars == (65..90) \cup (48..57) \cup { 95, 60, 62, 39 }

\* re.match(r'^INCLUDE\s+([A-Z0-9_<>\']+)\s*\.', clean_line) on the line
\* "INCLUDE <token>." : the group must be non-empty and reach the period
MatchesInclude(tok) == Len(tok) > 0 /\ \A i \in 1..Len(tok) : tok[i] \in NameChars

\* re.sub(r'[<>\']', '', include_name)
IsDecoration(c) == c \in { 60, 62, 39 }
StripDecoration(tok) == SelectSeq(tok, LAMBDA c : ~IsDecoration(c))

\* the per-unit duplicate test of _parse_includes
AlreadyCollected(includes, name) == name \in Range(includes)

RECURSIVE ParseFrom(_, _)
ParseFrom(lines, includes) ==
  IF lines = <<>> THEN includes
  ELSE LET clean_line == Upper(Head(lines))
           include_name == StripDecoration(clean_line)
       IN  IF MatchesInclude(clean_line) /\ ~AlreadyCollected(includes, include_name)
           THEN ParseFrom(Tail(lines), Append(includes, include_name))
           ELSE ParseFrom(Tail(lines), includes)

parse_includes(source_code) == ParseFrom(source_code, <<>>)

\* Python's order on str: lexicographic by code point, a proper prefix first
RECURSIVE StrLess(_, _)
StrLess(a, b) ==
  IF b = <<>> THEN FALSE
  ELSE IF a = <<>> THEN TRUE
  ELSE IF a[1] # b[1] THEN a[1] < b[1]
  ELSE StrLess(Tail(a), Tail(b))

\* sorted(list(all_found_includes))
RECURSIVE SortedDesc(_)
SortedDesc(S) ==
  IF S = {} THEN <<>>
  ELSE LET m == CHOOSE x \in S : \A y \in S : x = y \/ StrLess(y, x)
       IN  <<m>> \o SortedDesc(S \ {m})
RECURSIVE Sorted(_)
Sorted(S) ==
  IF S = {} THEN <<>>
  ELSE LET m == CHOOSE x \in S : \A y \in S : x = y \/ StrLess(x, y)
       IN  <<m>> \o Sorted(S \ {m})

\* --------------------------------------------------------- source fetching
\* what session.get does for one unit: an answer with a status and a body,
\* or an exception
OkResponse(lines) == [ exc |-> "none", status |-> 200, hasText |-> TRUE, lines |-> lines ]
FailResponses ==
  { [ exc |-> "none",      status |-> 200, hasText |-> FALSE, lines |-> <<>> ],
    [ exc |-> "none",      status |-> 404, hasText |-> TRUE,  lines |-> <<>> ],
    [ exc |-> "HTTPError", status |-> 404, hasText |-> FALSE, lines |-> <<>> ],
    [ exc |-> "HTTPError", status |-> 500, hasText |-> FALSE, lines |-> <<>> ],
    [ exc |-> "Exception", status |-> 0,   hasText |-> FALSE, lines |-> <<>> ] }

\* result of _fetch_source: a text, None, or an exception that leaves it
SomeSource(text) == [ raised |-> FALSE, some |-> TRUE, text |-> text ]
NoSource == [ raised |-> FALSE, some |-> FALSE, text |-> <<>> ]
SourceError == [ raised |-> TRUE, some |-> FALSE, text |-> <<>> ]

\* _fetch_source: the text of a 200 answer with a non-empty body, else None;
\* both except clauses return None
fetch_source_propagating(resp) ==
  IF resp.exc = "none"
  THEN IF resp.status = 200 /\ resp.hasText THEN SomeSource(resp.lines) ELSE NoSource
  ELSE SourceError
fetch_source(resp) ==
  IF resp.exc = "none"
  THEN IF resp.status = 200 /\ resp.hasText THEN SomeSource(resp.lines) ELSE NoSource
  ELSE IF resp.exc = "HTTPError"
  THEN NoSource
  ELSE NoSource

\* visited_key = f"{object_type}:{upper_object_name}"
VisitedKeyRaw(object_name, object_type) == << object_type, object_name >>
VisitedKey(object_name, object_type) == << object_type, Upper(object_name) >>

\* ---------------------------------------------------- the payload decoders
\* literals of the regular expressions of _parse_enhancement_source_from_xml
\* and _parse_enhancements_from_xml, as character codes
LtSource == << 60, 115, 111, 117, 114, 99, 101 >>                          \* "<source"
LtEnhSource == << 60, 101, 110, 104, 58, 115, 111, 117, 114, 99, 101 >>   \* "<enh:source"
CloseSource == << 60, 47, 115, 111, 117, 114, 99, 101, 62 >>                  \* "</source>"
CloseEnhSource == << 60, 47, 101, 110, 104, 58, 115, 111, 117, 114, 99, 101, 62 >>   \* "</enh:source>"
CDataOpen == << 60, 33, 91, 67, 68, 65, 84, 65, 91 >>                         \* "<![CDATA["
CDataClose == << 93, 93, 62 >>                                            \* "]]>"
NameAttribute == << 97, 100, 116, 99, 111, 114, 101, 58, 110, 97, 109, 101, 61, 34 >>   \* adtcore:name="
TypeAttribute == << 97, 100, 116, 99, 111, 114, 101, 58, 116, 121, 112, 101, 61, 34 >>   \* adtcore:type="

\* the str s continues at index i with the literal lit
HasPrefixAt(s, i, lit) ==
  /\ i >= 1 /\ i + Len(lit) - 1 <= Len(s)
  /\ \A k \in 1..Len(lit) : s[i + k - 1] = lit[k]

\* the least element of a non-empty set of indices
Least(S) == CHOOSE k \in S : \A j \in S : k <= j

\* the least index from i on that holds the character c, 0 when there is none
FirstCharAt(s, i, c) ==
  LET S == { k \in i..Len(s) : s[k] = c }
  IN  IF S = {} THEN 0 ELSE Least(S)

\* \s of a str pattern: the characters for which str.isspace() holds
IsSpace(c) ==
  c \in (9..13) \cup (28..32) \cup { 133, 160, 5760, 8232, 8233, 8239, 8287, 12288 }
            \cup (8192..8202)

\* the index after the run of \s* that starts at i
SkipSpace(s, i) ==
  IF i > Len(s) THEN i
  ELSE Least({ k \in i..(Len(s) + 1) : k > Len(s) \/ ~IsSpace(s[k]) })

\* the length of the literal of lits that s continues with at i, 0 when none
LiteralAt(s, i, lits) ==
  IF \E l \in lits : HasPrefixAt(s, i, l)
  THEN Len(CHOOSE l \in lits : HasPrefixAt(s, i, l))
  ELSE 0

NoMatch == [ found |-> FALSE, start |-> 0, stop |-> 0, group |-> << >> ]

\* <(?:opens)[^>]*>([^<]*)</(?:closes)> matched at index i: the tag name, the
\* rest of the tag up to the first ">", the text up to the first "<", which
\* has to open the closing tag
TextElementAt(s, i, opens, closes) ==
  LET n == LiteralAt(s, i, opens)
      gt == IF n = 0 THEN 0 ELSE FirstCharAt(s, i + n, 62)
      lt == IF gt = 0 THEN 0 ELSE FirstCharAt(s, gt + 1, 60)
      m == IF lt = 0 THEN 0 ELSE LiteralAt(s, lt, closes)
  IN  IF m = 0 THEN NoMatch
      ELSE [ found |-> TRUE, start |-> i, stop |-> lt + m,
             group |-> SubSeq(s, gt + 1, lt - 1) ]

\* the least index e from i on where "]]>", a run of \s* and a closing tag
\* follow each other (the end of the lazy group (.*?)), 0 when there is none
CDataEnd(s, i, closes) ==
  LET S == { e \in i..Len(s) :
               /\ HasPrefixAt(s, e, CDataClose)
               /\ LiteralAt(s, SkipSpace(s, e + Len(CDataClose)), closes) > 0 }
  IN  IF S = {} THEN 0 ELSE Least(S)

\* <(?:opens)[^>]*>\s*<!\[CDATA\[(.*?)\]\]>\s*</(?:closes)> with re.DOTALL
\* matched at index i
CDataElementAt(s, i, opens, closes) ==
  LET n == LiteralAt(s, i, opens)
      gt == IF n = 0 THEN 0 ELSE FirstCharAt(s, i + n, 62)
      cd == IF gt = 0 THEN 0 ELSE SkipSpace(s, gt + 1)
      from == IF cd # 0 /\ HasPrefixAt(s, cd, CDataOpen) THEN cd + Len(CDataOpen) ELSE 0
      e == IF from = 0 THEN 0 ELSE CDataEnd(s, from, closes)
  IN  IF e = 0 THEN NoMatch
      ELSE LET close == SkipSpace(s, e + Len(CDataClose))
           IN  [ found |-> TRUE, start |-> i, stop |-> close + LiteralAt(s, close, closes),
                 group |-> SubSeq(s, from, e - 1) ]

\* re.search and the next item of re.finditer: the match at the least index
\* from i on
SearchText(s, i, opens, closes) ==
  LET S == { k \in i..Len(s) : TextElementAt(s, k, opens, closes).found }
  IN  IF S = {} THEN NoMatch ELSE TextElementAt(s, Least(S), opens, closes)

SearchCData(s, i, opens, closes) ==
  LET S == { k \in i..Len(s) : CDataElementAt(s, k, opens, closes).found }
  IN  IF S = {} THEN NoMatch ELSE CDataElementAt(s, Least(S), opens, closes)

\* str.encode('utf-8') of a str without surrogates
RECURSIVE utf8_encode(_)
utf8_encode(text) ==
  IF text = << >> THEN << >>
  ELSE LET cp == Head(text)
           bytes == IF cp < 128 THEN << cp >>
                    ELSE IF cp < 2048 THEN << 192 + (cp \div 64), 128 + (cp % 64) >>
                    ELSE IF cp < 65536
                    THEN << 224 + (cp \div 4096), 128 + ((cp \div 64) % 64), 128 + (cp % 64) >>
                    ELSE << 240 + (cp \div 262144), 128 + ((cp \div 4096) % 64),
                            128 + ((cp \div 64) % 64), 128 + (cp % 64) >>
       IN  bytes \o utf8_encode(Tail(text))

Undecodable == [ ok |-> FALSE, text |-> << >> ]

\* bytes.decode('utf-8'), strict: the str, or UnicodeDecodeError (ok = FALSE)
RECURSIVE Utf8DecodeFrom(_, _, _)
Utf8DecodeFrom(b, i, out) ==
  LET Cont(k) == k <= Len(b) /\ b[k] \in 128..191
      b0 == b[i]
  IN  IF i > Len(b) THEN [ ok |-> TRUE, text |-> out ]
      ELSE IF b0 < 128 THEN Utf8DecodeFrom(b, i + 1, Append(out, b0))
      ELSE IF b0 \in 194..223
      THEN IF Cont(i + 1)
           THEN Utf8DecodeFrom(b, i + 2, Append(out, (b0 - 192) * 64 + (b[i + 1] - 128)))
           ELSE Undecodable
      ELSE IF b0 \in 224..239
      THEN IF /\ Cont(i + 1) /\ Cont(i + 2)
              /\ b0 = 224 => b[i + 1] >= 160
              /\ b0 = 237 => b[i + 1] <= 159
           THEN Utf8DecodeFrom(b, i + 3,
                  Append(out, (b0 - 224) * 4096 + (b[i + 1] - 128) * 64 + (b[i + 2] - 128)))
           ELSE Undecodable
      ELSE IF b0 \in 240..244
      THEN IF /\ Cont(i + 1) /\ Cont(i + 2) /\ Cont(i + 3)
              /\ b0 = 240 => b[i + 1] >= 144
              /\ b0 = 244 => b[i + 1] <= 143
           THEN Utf8DecodeFrom(b, i + 4,
                  Append(out, (b0 - 240) * 262144 + (b[i + 1] - 128) * 4096
                              + (b[i + 2] - 128) * 64 + (b[i + 3] - 128)))
           ELSE Undecodable
      ELSE Undecodable

\* bytes.decode('ascii') in the place of bytes.decode('utf-8')
ascii_decode(b) ==
  IF \A i \in 1..Len(b) : b[i] < 128 THEN [ ok |-> TRUE, text |-> b ] ELSE Undecodable
utf8_decode(b) == Utf8DecodeFrom(b, 1, << >>)

\* the Base64 alphabet A-Z a-z 0-9 + /
B64Char(n) ==
  IF n < 26 THEN 65 + n
  ELSE IF n < 52 THEN 97 + (n - 26)
  ELSE IF n < 62 THEN 48 + (n - 52)
  ELSE IF n = 62 THEN 43 ELSE 47

\* the value of a character of the alphabet, 64 for any other character
B64Index(c) ==
  IF c \in 65..90 THEN c - 65
  ELSE IF c \in 97..122 THEN c - 97 + 26
  ELSE IF c \in 48..57 THEN c - 48 + 52
  ELSE IF c = 43 THEN 62
  ELSE IF c = 47 THEN 63
  ELSE 64

\* base64.b64encode(bytes).decode('utf-8')
RECURSIVE b64encode(_)
b64encode(b) ==
  IF b = << >> THEN << >>
  ELSE IF Len(b) = 1
  THEN << B64Char(b[1] \div 4), B64Char((b[1] % 4) * 16), 61, 61 >>
  ELSE IF Len(b) = 2
  THEN << B64Char(b[1] \div 4), B64Char((b[1] % 4) * 16 + (b[2] \div 16)),
          B64Char((b[2] % 16) * 4), 61 >>
  ELSE << B64Char(b[1] \div 4), B64Char((b[1] % 4) * 16 + (b[2] \div 16)),
          B64Char((b[2] % 16) * 4 + (b[3] \div 64)), B64Char(b[3] % 64) >>
       \o b64encode(SubSeq(b, 4, Len(b)))

\* binascii.a2b_base64 in its default, non-strict mode: characters outside
\* the alphabet are skipped, a pad sequence that completes a quad ends the
\* input, and data that does not end a quad is binascii.Error (ok = FALSE)
RECURSIVE a2b_base64(_, _, _, _, _, _)
a2b_base64(s, i, quad_pos, leftchar, pads, out) ==
  IF i > Len(s)
  THEN IF quad_pos # 0 THEN [ ok |-> FALSE, bytes |-> << >> ] ELSE [ ok |-> TRUE, bytes |-> out ]
  ELSE IF s[i] = 61
  THEN IF quad_pos >= 2 /\ quad_pos + pads + 1 >= 4
       THEN [ ok |-> TRUE, bytes |-> out ]
       ELSE a2b_base64(s, i + 1, quad_pos, leftchar, pads + 1, out)
  ELSE LET this_ch == B64Index(s[i])
       IN  IF this_ch = 64 THEN a2b_base64(s, i + 1, quad_pos, leftchar, pads, out)
           ELSE IF quad_pos = 0 THEN a2b_base64(s, i + 1, 1, this_ch, 0, out)
           ELSE IF quad_pos = 1
           THEN a2b_base64(s, i + 1, 2, this_ch % 16, 0,
                           Append(out, leftchar * 4 + (this_ch \div 16)))
           ELSE IF quad_pos = 2
           THEN a2b_base64(s, i + 1, 3, this_ch % 4, 0,
                           Append(out, leftchar * 16 + (this_ch \div 4)))
           ELSE a2b_base64(s, i + 1, 0, 0, 0, Append(out, leftchar * 64 + this_ch))

\* base64.b64decode(s) of a str: ValueError for a character outside ASCII
b64decode(s) ==
  IF \E i \in 1..Len(s) : s[i] >= 128 THEN [ ok |-> FALSE, bytes |-> << >> ]
  ELSE a2b_base64(s, 1, 0, 0, 0, << >>)

\* base64.b64decode(base64_source).decode('utf-8'): the str, or an exception
DecodeSource(base64_source) ==
  LET b == b64decode(base64_source)
  IN  IF b.ok THEN utf8_decode(b.bytes) ELSE Undecodable

SourceOpens == { LtSource, LtEnhSource }
SourceCloses == { CloseSource, CloseEnhSource }

\* enhancement_by_name.py lines 61-63: the whole payload is the result
FallbackEmpty(xml_data) == << >>
Fallback(xml_data) == xml_data

\* _parse_enhancement_source_from_xml: the Base64 text of the first element,
\* else the CDATA text of the first element, else the payload itself
parse_enhancement_source_from_xml(xml_data) ==
  LET base64_match == SearchText(xml_data, 1, SourceOpens, SourceCloses)
      decoded_source == IF base64_match.found /\ base64_match.group # << >>
                        THEN DecodeSource(base64_match.group)
                        ELSE Undecodable
      text_match == SearchCData(xml_data, 1, SourceOpens, SourceCloses)
  IN  IF decoded_source.ok THEN decoded_source.text
      ELSE IF text_match.found /\ text_match.group # << >> THEN text_match.group
      ELSE Fallback(xml_data)

\* str(n) of a natural number
RECURSIVE ToDecimal(_)
ToDecimal(n) ==
  IF n < 10 THEN << 48 + n >> ELSE Append(ToDecimal(n \div 10), 48 + (n % 10))

\* re.search(attribute + r'([^"]*)"[^>]*$', before_source) from index p on:
\* the value of the first attribute after which the text holds no ">"
SearchAttribute(before_source, p, attribute) ==
  LET Quote(k) == IF HasPrefixAt(before_source, k, attribute)
                  THEN FirstCharAt(before_source, k + Len(attribute), 34) ELSE 0
      S == { k \in p..Len(before_source) :
               Quote(k) # 0 /\ FirstCharAt(before_source, Quote(k) + 1, 62) = 0 }
  IN  IF S = {} THEN NoMatch
      ELSE LET k == Least(S)
           IN  [ found |-> TRUE, start |-> k, stop |-> Len(before_source) + 1,
                 group |-> SubSeq(before_source, k + Len(attribute), Quote(k) - 1) ]

DefaultName(index) == << 101, 110, 104, 97, 110, 99, 101, 109, 101, 110, 116, 95 >> \o ToDecimal(index + 1)   \* f"enhancement_{index + 1}"
DefaultType == << 101, 110, 104, 97, 110, 99, 101, 109, 101, 110, 116 >>   \* "enhancement"

\* enhancements.py lines 88-90: the source_code of a match whose text could
\* not be decoded
RawSourceDropped(base64_source) == << >>
RawSource(base64_source) == << base64_source >>

\* enhancements.py lines 62-92: the record of one <enh:source> match; an
\* absent source_code or description (None) is the empty sequence
EnhancementOf(xml_data, match, index) ==
  LET before_source == SubSeq(xml_data, 1, match.start - 1)
      name_match == SearchAttribute(before_source, 1, NameAttribute)
      type_match == SearchAttribute(before_source, 1, TypeAttribute)
      base64_source == match.group
      decoded_source == DecodeSource(base64_source)
  IN  [ name |-> IF name_match.found /\ name_match.group # << >>
                 THEN name_match.group ELSE DefaultName(index),
        type |-> IF type_match.found /\ type_match.group # << >>
                 THEN type_match.group ELSE DefaultType,
        source_code |-> IF base64_source = << >> THEN << >>
                        ELSE IF decoded_source.ok THEN << decoded_source.text >>
                        ELSE RawSource(base64_source),
        description |-> << >> ]

\* the loop over re.finditer(source_regex, xml_data) from index pos on
RECURSIVE EnhancementsFrom(_, _, _)
EnhancementsFrom(xml_data, pos, index) ==
  LET match == SearchText(xml_data, pos, { LtEnhSource }, { CloseEnhSource })
  IN  IF ~match.found THEN << >>
      ELSE << EnhancementOf(xml_data, match, index) >>
           \o EnhancementsFrom(xml_data, match.stop, index + 1)

\* _parse_enhancements_from_xml: one record per <enh:source> element
parse_enhancements_from_xml(xml_data) == EnhancementsFrom(xml_data, 1, 0)

\* ------------------------------------------------------------------- state
VARIABLES
  src,        \* the backing store as far as it has been read: key -> response
  ipc,        \* get_includes_list: "idle", "walk" (inside asyncio.run), "done"
  icall,      \* arguments of the current get_includes_list call
  stack,      \* activation records of _find_includes_recursive, innermost last
  visited,    \* the call's visited set
  found,      \* the call's all_found_includes set
  fetchLog,   \* keys handed to _fetch_source during the current call, in order
  iresult,    \* outcome of the current get_includes_list call
  history,    \* include lists returned by earlier calls, by (name, type)
  ncalls,     \* number of calls started
  epc,        \* get_enhancements: "idle", the request about to be made for the
              \* current unit ("class", "program", "include", "enrich"),
              \* "discover", "discovering", "done"
  ecall,      \* arguments of the get_enhancements call
  eunit,      \* the unit _get_enhancements_for_single_object works on
  einfo,      \* object_info of that unit once its kind is decided
  ecaught,    \* the exceptions bound inside _determine_object_type_and_path
              \* while it runs for that unit, and when it has raised:
              \* class_error, program_error (bound or not) and error
  eincludes,  \* includes_list of the recursive call
  eobjects,   \* main_enhancement_response / all_enhancement_responses
  elog,       \* kind probes and enrichment fetches of the call, in order
  eresult,    \* outcome of the get_enhancements call
  dpc,        \* a decoding run: "off", "text" (the text is chosen), "payload"
              \* (xml_data is built), "single" and "done" (decoded by one, by
              \* both decoders)
  dtext,      \* the text put into the payload
  dlayout,    \* the layout of the payload: "none", "base64", "cdata", "raw",
              \* "other", "list"
  dtag,       \* the name of the element that holds the text, "" when none
  dpayload,   \* xml_data
  dblocks,    \* the source elements of a payload of the listing endpoint
  dsource,    \* the result of _parse_enhancement_source_from_xml, if any
  denh        \* the result of _parse_enhancements_from_xml, if any

ivars == << ipc, icall, stack, visited, found, fetchLog, iresult >>
evars == << epc, ecall, eunit, einfo, ecaught, eincludes, eobjects, elog, eresult >>
dvars == << dpc, dtext, dlayout, dtag, dpayload, dblocks, dsource, denh >>
vars == << src, ipc, icall, stack, visited, found, fetchLog, iresult, history, ncalls,
           epc, ecall, eunit, einfo, ecaught, eincludes, eobjects, elog, eresult,
           dpc, dtext, dlayout, dtag, dpayload, dblocks, dsource, denh >>

NoCall == [ object_name |-> <<>>, object_type |-> "none" ]
NoResult == [ kind |-> "none" ]
Raised(e) == [ kind |-> "raised", exc |-> e ]

\* an activation record: "enter" before the visited test, "loop" while
\* iterating direct_includes (next is the index of the next element)
EnterFrame(name, type) ==
  [ at |-> "enter", object_name |-> name, object_type |-> type, direct_includes |-> <<>>, next |-> 1 ]

EdgesIn(s) == LET keys == DOMAIN s
                  RECURSIVE Sum(_)
                  Sum(K) == IF K = {} THEN 0
                            ELSE LET k == CHOOSE k \in K : TRUE
                                 IN  Len(s[k].lines) + Sum(K \ {k})
              IN  Sum(keys)

\* the answers the backing store can give for a key not read before
FreshResponses(s, maxEdges, tokens, fails) ==
  fails \cup { OkResponse(l) : l \in SeqsUpTo(tokens, maxEdges - EdgesIn(s)) }

NoEnhCall == [ object_name |-> << >>, program |-> << >>, include_nested |-> FALSE ]
NoUnit == [ object_name |-> << >>, idx |-> 0 ]
NoInfo == [ type |-> "none", context |-> << >> ]
NoCaught == [ class_error |-> FALSE, program_error |-> FALSE, error |-> "none" ]

InitCalls ==
  /\ src = << >>
  /\ ipc = "idle"
  /\ icall = NoCall
  /\ stack = << >>
  /\ visited = {}
  /\ found = {}
  /\ fetchLog = << >>
  /\ iresult = NoResult
  /\ history = << >>
  /\ ncalls = 0
  /\ epc = "idle"
  /\ ecall = NoEnhCall
  /\ eunit = NoUnit
  /\ einfo = NoInfo
  /\ ecaught = NoCaught
  /\ eincludes = << >>
  /\ eobjects = << >>
  /\ elog = << >>
  /\ eresult = NoResult

\* no decoding run
Init ==
  /\ InitCalls
  /\ dpc = "off"
  /\ dtext = << >>
  /\ dlayout = "none"
  /\ dtag = ""
  /\ dpayload = << >>
  /\ dblocks = << >>
  /\ dsource = << >>
  /\ denh = << >>

\* the fresh working sets of one call (includes_list.py:141-142)
FreshSetKeep(old) == old
FreshSet(old) == {}

\* "not object_name"
NameMissingNever(object_name) == FALSE
NameMissing(object_name) == object_name = << >>

\* get_includes_list up to asyncio.run: validation, fresh working sets
StartIncludesList(object_name, object_type) ==
  /\ icall' = [ object_name |-> object_name, object_type |-> object_type ]
  /\ fetchLog' = << >>
  /\ IF NameMissing(object_name)
     THEN /\ ipc' = "done"
          /\ iresult' = Raised("ValueError")
          /\ UNCHANGED << stack, visited, found >>
     ELSE IF object_type \notin { "program", "include" }
     THEN /\ ipc' = "done"
          /\ iresult' = Raised("ValueError")
          /\ UNCHANGED << stack, visited, found >>
     ELSE /\ ipc' = "walk"
          /\ iresult' = NoResult
          /\ found' = FreshSet(found)
          /\ visited' = FreshSet(visited)
          /\ stack' = << EnterFrame(object_name, object_type) >>

\* a caller invokes get_includes_list
CallGetIncludesList ==
  /\ ipc = "idle" /\ epc = "idle"
  /\ \E object_name \in RootNames, object_type \in ObjectTypes :
       StartIncludesList(object_name, object_type)
  /\ ncalls' = ncalls + 1
  /\ UNCHANGED << src, history >>
  /\ UNCHANGED evars
  /\ UNCHANGED dvars

\* a further call after an earlier one has ended
CallAgain ==
  /\ ipc = "done" /\ epc = "idle"
  /\ ncalls < MaxCalls
  /\ \E object_name \in RootNames, object_type \in ObjectTypes :
       StartIncludesList(object_name, object_type)
  /\ ncalls' = ncalls + 1
  /\ UNCHANGED << src, history >>
  /\ UNCHANGED evars
  /\ UNCHANGED dvars

Top == stack[Len(stack)]
Pop == SubSeq(stack, 1, Len(stack) - 1)

\* visited.add(visited_key)
AddVisitedSkip(v, key) == v
AddVisited(v, key) == v \cup { key }

\* _find_includes_recursive lines 100-104: the key is already in visited
VisitSeen ==
  /\ ipc = "walk" /\ stack # << >> /\ Top.at = "enter"
  /\ VisitedKey(Top.object_name, Top.object_type) \in visited
  /\ stack' = Pop
  /\ UNCHANGED << src, ipc, icall, visited, found, fetchLog, iresult, history, ncalls >>
  /\ UNCHANGED evars
  /\ UNCHANGED dvars

\* _find_includes_recursive lines 109-111: the return for a unit whose source
\* could not be fetched leaves all_found_includes as it is
UnfetchedDropped(f, object_name) == f \ { Upper(object_name) }
Unfetched(f, object_name) == f

\* _find_includes_recursive lines 100-113: mark, fetch, parse
VisitNew(maxEdges, tokens, fails) ==
  /\ ipc = "walk" /\ stack # << >> /\ Top.at = "enter"
  /\ LET upper_object_name == Upper(Top.object_name)
         key == VisitedKey(Top.object_name, Top.object_type)
         fkey == << Top.object_type, upper_object_name >>
     IN  /\ key \notin visited
         /\ visited' = AddVisited(visited, key)
         /\ fetchLog' = Append(fetchLog, fkey)
         /\ \E resp \in (IF fkey \in DOMAIN src THEN { src[fkey] } ELSE FreshResponses(src, maxEdges, tokens, fails)) :
              /\ src' = (IF fkey \in DOMAIN src THEN src ELSE (fkey :> resp) @@ src)
              /\ LET source_code == fetch_source(resp)
                 IN  IF source_code.raised
                     THEN \* get_includes_list lines 164-165
                          /\ stack' = << >>
                          /\ ipc' = "done"
                          /\ iresult' = Raised("ConnectionError")
                          /\ UNCHANGED found
                     ELSE IF ~source_code.some
                     THEN /\ stack' = Pop
                          /\ found' = Unfetched(found, Top.object_name)
                          /\ UNCHANGED << ipc, iresult >>
                     ELSE /\ stack' = [ stack EXCEPT ![Len(stack)] =
                                          [ @ EXCEPT !.at = "loop",
                                                     !.direct_includes = parse_includes(source_code.text),
                                                     !.next = 1 ] ]
                          /\ UNCHANGED << found, ipc, iresult >>
  /\ UNCHANGED << icall, history, ncalls >>
  /\ UNCHANGED evars
  /\ UNCHANGED dvars

\* advancing the for loop over direct_includes
NextIndexSkip(i) == i + 2
NextIndex(i) == i + 1

\* all_found_includes.add(include_name)
AddFoundExceptRoot(f, include_name) ==
  IF include_name = Upper(icall.object_name) THEN f ELSE f \cup { include_name }
AddFound(f, include_name) == f \cup { include_name }

\* _find_includes_recursive line 119: the coroutine of the include is
\* awaited, so that it runs before the loop goes on
ScheduleVisit(st, include_name) == << EnterFrame(include_name, "include") >> \o st
AwaitVisit(st, include_name) == Append(st, EnterFrame(include_name, "include"))

\* _find_includes_recursive lines 114-119: one iteration of the loop
LoopNext ==
  /\ ipc = "walk" /\ stack # << >> /\ Top.at = "loop"
  /\ Top.next <= Len(Top.direct_includes)
  /\ LET include_name == Top.direct_includes[Top.next]
     IN  /\ found' = AddFound(found, include_name)
         /\ stack' = AwaitVisit([ stack EXCEPT ![Len(stack)].next = NextIndex(@) ],
                                 include_name)
  /\ UNCHANGED << src, ipc, icall, visited, fetchLog, iresult, history, ncalls >>
  /\ UNCHANGED evars
  /\ UNCHANGED dvars

\* the loop is exhausted: the coroutine returns
LoopEnd ==
  /\ ipc = "walk" /\ stack # << >> /\ Top.at = "loop"
  /\ Top.next > Len(Top.direct_includes)
  /\ stack' = Pop
  /\ UNCHANGED << src, ipc, icall, visited, found, fetchLog, iresult, history, ncalls >>
  /\ UNCHANGED evars
  /\ UNCHANGED dvars

\* includes_count of the response
IncludesCount(includes_list) == Len(includes_list)

\* get_includes_list lines 149-162: the response
IncludesResponse(object_name, object_type, all_found_includes) ==
  LET includes_list == Sorted(all_found_includes)
  IN  [ kind |-> "returned",
        object_name |-> object_name,
        object_type |-> object_type,
        includes_count |-> IncludesCount(includes_list),
        includes |-> includes_list ]

\* asyncio.run returned: build the response
FinishIncludesList ==
  /\ ipc = "walk" /\ stack = << >>
  /\ ipc' = "done"
  /\ iresult' = IncludesResponse(icall.object_name, icall.object_type, found)
  /\ history' = (IF << icall.object_name, icall.object_type >> \in DOMAIN history
                 THEN history
                 ELSE (<< icall.object_name, icall.object_type >> :> iresult'.includes) @@ history)
  /\ UNCHANGED << src, icall, stack, visited, found, fetchLog, ncalls >>
  /\ UNCHANGED evars
  /\ UNCHANGED dvars

Walk(maxEdges, tokens, fails) ==
  VisitSeen \/ VisitNew(maxEdges, tokens, fails) \/ LoopNext \/ LoopEnd \/ FinishIncludesList

\* one get_includes_list call
Next == CallGetIncludesList \/ Walk(MaxEdges, Tokens, FailResponses)

Spec == Init /\ [][Next]_vars

\* asyncio.run drives the coroutine to completion: no step of the walk is
\* postponed for ever
SpecLive == Spec /\ WF_vars(Walk(MaxEdges, Tokens, FailResponses))

\* the tokens and the fetch failure of the sources read in the behaviours
\* with several calls: a  B, and a transport exception
CallTokens == { <<97>>, <<66>> }
CallFailResponses ==
  { [ exc |-> "Exception", status |-> 0, hasText |-> FALSE, lines |-> <<>> ] }

\* several get_includes_list calls, one after the other, on one backing store
NextCalls == CallGetIncludesList \/ CallAgain \/ Walk(MaxCallEdges, CallTokens, CallFailResponses)

SpecCalls == Init /\ [][NextCalls]_vars

\* ------------------------------------------------- Enrichment Aggregator
\* truthiness of an optional str: None and "" are false
Truthy(opt) == opt # << >> /\ opt[1] # << >>

\* answers of an existence check: an exception of the request, a status
\* other than 200, or 200 with the metadata (which for an include may carry
\* an include:contextRef with a non-empty adtcore:uri)
ProbeAnswers ==
  { [ exc |-> TRUE,  status |-> 0,   contextRef |-> << >> ],
    [ exc |-> FALSE, status |-> 404, contextRef |-> << >> ],
    [ exc |-> FALSE, status |-> 200, contextRef |-> << >> ] }
IncludeProbeAnswers ==
  ProbeAnswers \cup
  { [ exc |-> FALSE, status |-> 200, contextRef |-> << u >> ] : u \in ContextUris }

\* response.text of an enrichment answer: the elements document around the
\* blocks, each block an <enh:source> element with the Base64 text of "A"
BlockText(block) == << 60, 101, 110, 104, 58, 115, 111, 117, 114, 99, 101, 62, 81, 81, 61, 61, 60, 47, 101, 110, 104, 58, 115, 111, 117, 114, 99, 101, 62 >>   \* "<enh:source>QQ==</enh:source>"
RECURSIVE BlocksText(_)
BlocksText(payload) ==
  IF payload = << >> THEN << >> ELSE BlockText(Head(payload)) \o BlocksText(Tail(payload))
PayloadText(payload) ==
  << 60, 101, 110, 104, 58, 101, 108, 101, 109, 101, 110, 116, 115, 62 >> \o BlocksText(payload) \o << 60, 47, 101, 110, 104, 58, 101, 108, 101, 109, 101, 110, 116, 115, 62 >>   \* "<enh:elements>" ... "</enh:elements>"

\* _parse_enhancements_from_xml(response.text) for each payload of the model
DecodedPayloads ==
  [ payload \in SeqsUpTo(Blocks, MaxFragments) |->
      parse_enhancements_from_xml(PayloadText(payload)) ]

\* answers of the enrichment endpoint: an exception of the request
\* (RequestException), an error status, 200 with an empty body, or 200 with
\* a payload
EnrichAnswers ==
  { [ exc |-> TRUE,  status |-> 0,   hasText |-> FALSE, payload |-> << >> ],
    [ exc |-> FALSE, status |-> 404, hasText |-> TRUE,  payload |-> << >> ],
    [ exc |-> FALSE, status |-> 500, hasText |-> TRUE,  payload |-> << >> ],
    [ exc |-> FALSE, status |-> 200, hasText |-> FALSE, payload |-> << >> ] }
  \cup { [ exc |-> FALSE, status |-> 200, hasText |-> TRUE, payload |-> b ] :
           b \in SeqsUpTo(Blocks, MaxFragments) }

\* f"/sap/bc/adt/programs/programs/{manual_program_context}", the constant
\* prefix written as "/"
ProgramContext(manual_program_context) == <<47>> \o manual_program_context

RaisedAdt(status) == [ kind |-> "raised", exc |-> "AdtError", status |-> status ]

ProbeEvent(kind, ans) ==
  [ op |-> "probe", kind |-> kind, object_name |-> eunit.object_name, idx |-> eunit.idx,
    exists |-> (~ans.exc /\ ans.status = 200), context |-> ans.contextRef ]

\* "not object_name" of get_enhancements
EnhNameMissingNever(object_name) == FALSE
EnhNameMissing(object_name) == object_name = << >>

\* _get_enhancements_for_single_object line 206: every unit, the root (idx 0)
\* and a discovered include alike, enters _determine_object_type_and_path,
\* which begins with the Class probe
FirstProbeIncludeOnly(idx) == IF idx = 0 THEN "class" ELSE "include"
FirstProbe(idx) == "class"

\* a caller invokes get_enhancements (lines 262-270)
CallGetEnhancementsFrom(names, hints, modes) ==
  /\ epc = "idle" /\ ipc = "idle"
  /\ \E object_name \in names, program \in hints, include_nested \in modes :
       /\ ecall' = [ object_name |-> object_name, program |-> program,
                     include_nested |-> include_nested ]
       /\ IF EnhNameMissing(object_name)
          THEN /\ epc' = "done"
               /\ eresult' = Raised("ValueError")
               /\ UNCHANGED eunit
          ELSE /\ epc' = FirstProbe(0)
               /\ eunit' = [ object_name |-> object_name, idx |-> 0 ]
               /\ UNCHANGED eresult
  /\ UNCHANGED << einfo, ecaught, eincludes, eobjects, elog >>
  /\ UNCHANGED << src, history, ncalls >>
  /\ UNCHANGED dvars
  /\ UNCHANGED ivars

CallGetEnhancements == CallGetEnhancementsFrom(EnhRootNames, Hints, BOOLEAN)

\* the exception get_enhancements raises for an exception of the root's
\* single-unit procedure (lines 317-322)
RootError(err) ==
  IF err.exc = "HTTPError" THEN RaisedAdt(err.status)
  ELSE IF err.exc = "RequestException" THEN Raised("ConnectionError")
  ELSE err

\* get_enhancements lines 302-315
CombinedResponseCountAll(all_enhancement_responses) ==
  LET RECURSIVE Sum(_)
      Sum(rs) == IF rs = << >> THEN 0 ELSE Head(rs).enhancement_count + Sum(Tail(rs))
  IN  [ kind |-> "returned",
        combined |-> TRUE,
        main_object |-> [ name |-> ecall.object_name,
                          type |-> all_enhancement_responses[1].object_type ],
        include_nested |-> TRUE,
        total_objects_analyzed |-> 1 + Len(eincludes),
        total_enhancements_found |-> Sum(all_enhancement_responses),
        objects |-> all_enhancement_responses ]
CombinedResponse(all_enhancement_responses) ==
  LET RECURSIVE Sum(_)
      Sum(rs) == IF rs = << >> THEN 0 ELSE Head(rs).enhancement_count + Sum(Tail(rs))
  IN  [ kind |-> "returned",
        combined |-> TRUE,
        main_object |-> [ name |-> ecall.object_name,
                          type |-> all_enhancement_responses[1].object_type ],
        include_nested |-> TRUE,
        total_objects_analyzed |-> Len(all_enhancement_responses),
        total_enhancements_found |-> Sum(all_enhancement_responses),
        objects |-> all_enhancement_responses ]

\* get_enhancements lines 292-315: the loop over includes_list once the fetch
\* of an include has returned (ok) or raised err, which is printed and dropped
AfterIncludeAbort(ok, objects, err) ==
  IF ~ok
  THEN /\ epc' = "done"
       /\ eresult' = err
       /\ UNCHANGED eunit
  ELSE IF eunit.idx < Len(eincludes)
  THEN /\ epc' = "class"
       /\ eunit' = [ object_name |-> eincludes[eunit.idx + 1], idx |-> eunit.idx + 1 ]
       /\ UNCHANGED eresult
  ELSE /\ epc' = "done"
       /\ eresult' = CombinedResponse(objects)
       /\ UNCHANGED eunit
AfterInclude(ok, objects, err) ==
  IF eunit.idx < Len(eincludes)
  THEN /\ epc' = FirstProbe(eunit.idx + 1)
       /\ eunit' = [ object_name |-> eincludes[eunit.idx + 1], idx |-> eunit.idx + 1 ]
       /\ UNCHANGED eresult
  ELSE /\ epc' = "done"
       /\ eresult' = CombinedResponse(objects)
       /\ UNCHANGED eunit

\* get_enhancements lines 289 and 296: the responses are collected in the
\* order in which they arrive, the root's first
CollectFirst(objects, response) == << response >> \o objects
Collect(objects, response) == Append(objects, response)

\* what get_enhancements does once _get_enhancements_for_single_object has
\* returned response (ok) or raised err for the current unit
AfterUnit(ok, response, err) ==
  LET objects == IF ok THEN Collect(eobjects, response) ELSE eobjects
  IN  /\ eobjects' = objects
      /\ einfo' = NoInfo
      /\ IF eunit.idx = 0
         THEN IF ~ok
              THEN /\ epc' = "done"
                   /\ eresult' = RootError(err)
                   /\ UNCHANGED eunit
              ELSE IF ~ecall.include_nested
              THEN /\ epc' = "done"
                   /\ eresult' = [ kind |-> "returned", combined |-> FALSE, report |-> response ]
                   /\ UNCHANGED eunit
              ELSE /\ epc' = "discover"
                   /\ UNCHANGED << eresult, eunit >>
         ELSE AfterInclude(ok, objects, err)

\* the kind the procedure tries after a probe that did not report existence
AfterClassSkip == "include"
AfterClass == "program"

\* _determine_object_type_and_path lines 109-124: the Class probe
ProbeClassFrom(answers) ==
  /\ epc = "class"
  /\ \E ans \in answers :
       /\ elog' = Append(elog, ProbeEvent("class", ans))
       /\ IF ~ans.exc /\ ans.status = 200
          THEN /\ einfo' = [ type |-> "class", context |-> << >> ]
               /\ ecaught' = NoCaught
               /\ epc' = "enrich"
          ELSE /\ epc' = AfterClass
               /\ ecaught' = [ NoCaught EXCEPT !.class_error = ans.exc ]
               /\ UNCHANGED einfo
  /\ UNCHANGED << ecall, eunit, eincludes, eobjects, eresult >>
  /\ UNCHANGED << src, history, ncalls >>
  /\ UNCHANGED dvars
  /\ UNCHANGED ivars

ProbeClass == ProbeClassFrom(ProbeAnswers)

\* _determine_object_type_and_path lines 126-141: the Program probe
ProbeProgramFrom(answers) ==
  /\ epc = "program"
  /\ \E ans \in answers :
       /\ elog' = Append(elog, ProbeEvent("program", ans))
       /\ IF ~ans.exc /\ ans.status = 200
          THEN /\ einfo' = [ type |-> "program", context |-> << >> ]
               /\ ecaught' = NoCaught
               /\ epc' = "enrich"
          ELSE /\ epc' = "include"
               /\ ecaught' = [ ecaught EXCEPT !.program_error = ans.exc ]
               /\ UNCHANGED einfo
  /\ UNCHANGED << ecall, eunit, eincludes, eobjects, eresult >>
  /\ UNCHANGED << src, history, ncalls >>
  /\ UNCHANGED dvars
  /\ UNCHANGED ivars

ProbeProgram == ProbeProgramFrom(ProbeAnswers)

\* the context of a unit that exists as an include (lines 154-171): the
\* manual program context if it is given, else the contextRef of the metadata
IncludeContextMetadataFirst(manual_program_context, contextRef) ==
  IF contextRef # << >> THEN contextRef
  ELSE IF Truthy(manual_program_context)
  THEN << ProgramContext(manual_program_context[1]) >>
  ELSE << >>
IncludeContext(manual_program_context, contextRef) ==
  IF Truthy(manual_program_context)
  THEN << ProgramContext(manual_program_context[1]) >>
  ELSE contextRef

\* lines 151-177: the unit is returned as an include when the probe answered
\* 200 and a context was determined (lines 167-171 raise otherwise)
IncludeResolvedNoContext(ans, context) ==
  ~ans.exc /\ ans.status = 200
IncludeResolved(ans, context) ==
  ~ans.exc /\ ans.status = 200 /\ context # << >>

\* _determine_object_type_and_path lines 179-192: the exception the
\* procedure raises when the Include probe gave no kind, whether error is
\* an AdtError of lines 167 and 179 or the exception of the request
ProbeFailureRaw(error) ==
  IF error = "Exception" THEN [ kind |-> "raised", exc |-> "RequestException" ] ELSE RaisedAdt(400)
ProbeFailure(error) == RaisedAdt(400)

\* _determine_object_type_and_path lines 143-192: the Include probe and the
\* context of the include
ProbeIncludeFrom(answers) ==
  /\ epc = "include"
  /\ \E ans \in answers :
       /\ elog' = Append(elog, ProbeEvent("include", ans))
       /\ LET context == IncludeContext(ecall.program, ans.contextRef)
          IN  IF IncludeResolved(ans, context)
              THEN /\ einfo' = [ type |-> "include", context |-> context ]
                   /\ ecaught' = NoCaught
                   /\ epc' = "enrich"
                   /\ UNCHANGED << eunit, eobjects, eresult >>
              ELSE \* AdtError(400, ...) in each of the three failing cases
                   LET error == IF ans.exc THEN "Exception" ELSE "AdtError"
                   IN  /\ ecaught' = [ ecaught EXCEPT !.error = error ]
                       /\ AfterUnit(FALSE, << >>, ProbeFailure(error))
  /\ UNCHANGED << ecall, eincludes >>
  /\ UNCHANGED << src, history, ncalls >>
  /\ UNCHANGED dvars
  /\ UNCHANGED ivars

ProbeInclude == ProbeIncludeFrom(IncludeProbeAnswers)

\* _get_enhancements_for_single_object lines 208-244: the enrichment fetch
EnrichFrom(answers) ==
  /\ epc = "enrich"
  /\ \E ans \in answers :
       /\ elog' = Append(elog,
                    [ op |-> "enrich", kind |-> einfo.type, object_name |-> eunit.object_name,
                      idx |-> eunit.idx, exists |-> (~ans.exc /\ ans.status = 200),
                      context |-> (IF einfo.type = "include" THEN einfo.context ELSE << >>),
                      answer |-> ans ])
       /\ IF ans.exc
          THEN AfterUnit(FALSE, << >>, [ kind |-> "raised", exc |-> "RequestException" ])
          ELSE IF ans.status >= 400
          THEN AfterUnit(FALSE, << >>, [ kind |-> "raised", exc |-> "HTTPError", status |-> ans.status ])
          ELSE IF ans.status = 200 /\ ans.hasText
          THEN LET enhancements == DecodedPayloads[ans.payload]
               IN  AfterUnit(TRUE,
                             [ object_name |-> eunit.object_name,
                               object_type |-> einfo.type,
                               context |-> einfo.context,
                               enhancements |-> enhancements,
                               enhancement_count |-> Len(enhancements) ],
                             NoResult)
          ELSE AfterUnit(FALSE, << >>, RaisedAdt(ans.status))
  /\ UNCHANGED << ecall, ecaught, eincludes >>
  /\ UNCHANGED << src, history, ncalls >>
  /\ UNCHANGED dvars
  /\ UNCHANGED ivars

Enrich == EnrichFrom(EnrichAnswers)

\* get_enhancements line 283: the call of get_includes_list
EnhDiscover ==
  /\ epc = "discover"
  /\ StartIncludesList(ecall.object_name, eobjects[1].object_type)
  /\ epc' = "discovering"
  /\ UNCHANGED << ecall, eunit, einfo, ecaught, eincludes, eobjects, elog, eresult >>
  /\ UNCHANGED << src, history, ncalls >>
  /\ UNCHANGED dvars

\* get_enhancements lines 284-292: get_includes_list has returned or raised
EnhAfterDiscover ==
  /\ epc = "discovering" /\ ipc = "done"
  /\ IF iresult.kind = "raised"
     THEN /\ epc' = "done"
          /\ eresult' = iresult
          /\ UNCHANGED << eunit, eincludes >>
     ELSE /\ eincludes' = iresult.includes
          /\ IF iresult.includes = << >>
             THEN /\ epc' = "done"
                  /\ eresult' = CombinedResponse(eobjects)
                  /\ UNCHANGED eunit
             ELSE /\ epc' = FirstProbe(1)
                  /\ eunit' = [ object_name |-> iresult.includes[1], idx |-> 1 ]
                  /\ UNCHANGED eresult
  /\ UNCHANGED << ecall, einfo, ecaught, eobjects, elog >>
  /\ UNCHANGED << src, history, ncalls >>
  /\ UNCHANGED dvars
  /\ UNCHANGED ivars

\* the fetch failure of the sources read below get_enhancements
EnhFailResponses ==
  { [ exc |-> "Exception", status |-> 0, hasText |-> FALSE, lines |-> <<>> ] }

\* one call of get_enhancements or of get_includes_list
NextEnh ==
  \/ CallGetEnhancements
  \/ CallGetIncludesList
  \/ Walk(MaxEnhEdges, EnhTokens, EnhFailResponses)
  \/ ProbeClass \/ ProbeProgram \/ ProbeInclude \/ Enrich
  \/ EnhDiscover \/ EnhAfterDiscover

SpecEnh == Init /\ [][NextEnh]_vars

\* the recursive calls on a root with up to three includes: the root "a"
\* without a hint, sources over three names that are always delivered, units
\* that are no classes, and enrichment fetches that fail by a transport error
\* or deliver a payload
AggRootNames == { <<97>> }
AggTokens == { <<97>>, <<66>>, <<99>> }
AggProbeAnswers == { a \in ProbeAnswers : ~a.exc }
AggIncludeProbeAnswers ==
  { a \in IncludeProbeAnswers : ~a.exc /\ (a.status = 200 => a.contextRef = << <<47, 81>> >>) }
AggEnrichAnswers == { a \in EnrichAnswers : a.exc \/ (a.status = 200 /\ a.hasText) }

\* one recursive call of get_enhancements
NextAgg ==
  \/ CallGetEnhancementsFrom(AggRootNames, { << >> }, { TRUE })
  \/ Walk(MaxAggEdges, AggTokens, {})
  \/ ProbeClassFrom({ a \in AggProbeAnswers : a.status # 200 })
  \/ ProbeProgramFrom(AggProbeAnswers)
  \/ ProbeIncludeFrom(AggIncludeProbeAnswers)
  \/ EnrichFrom(AggEnrichAnswers)
  \/ EnhDiscover \/ EnhAfterDiscover

SpecAgg == Init /\ [][NextAgg]_vars

\* ------------------------------------------------- the decoders on their own
\* the str values of a source text: "A", line break, "<", ">", "]" and
\* e acute, and two texts with markup of their own: "]]></source>" and
\* "<source>QQ==</source>"
TextChars == { 65, 10, 60, 62, 93, 233 }
MarkupTexts == { << 93, 93, 62, 60, 47, 115, 111, 117, 114, 99, 101, 62 >>,
                 << 60, 115, 111, 117, 114, 99, 101, 62, 81, 81, 61, 61, 60, 47, 115, 111, 117, 114, 99, 101, 62 >> }
Texts == SeqsUpTo(TextChars, MaxTextLen) \cup MarkupTexts

SourceTags == { "source", "enh:source" }
OpenTag(tag) == (IF tag = "source" THEN LtSource ELSE LtEnhSource) \o << 62 >>
CloseTag(tag) == IF tag = "source" THEN CloseSource ELSE CloseEnhSource

\* the document around the element, as in test_enhancement_xml_parsing.py:
\* "<enhancement:source>" line break ... line break "</enhancement:source>"
Document(element) ==
  << 60, 101, 110, 104, 97, 110, 99, 101, 109, 101, 110, 116, 58, 115, 111, 117, 114, 99, 101, 62 >> \o << 10 >>
  \o element \o << 10 >> \o << 60, 47, 101, 110, 104, 97, 110, 99, 101, 109, 101, 110, 116, 58, 115, 111, 117, 114, 99, 101, 62 >>

\* a run of the decoders starts from a text
InitDecode ==
  /\ InitCalls
  /\ dpc = "text"
  /\ dtext \in Texts
  /\ dlayout = "none"
  /\ dtag = ""
  /\ dpayload = << >>
  /\ dblocks = << >>
  /\ dsource = << >>
  /\ denh = << >>

\* test_base64_xml_parsing, test_enh_source_xml_parsing: the text is encoded
\* as Base64 and made the text content of a <source> or <enh:source> element
BuildBase64Payload ==
  /\ dpc = "text"
  /\ \E tag \in SourceTags :
       /\ dtag' = tag
       /\ dpayload' = Document(OpenTag(tag) \o b64encode(utf8_encode(dtext)) \o CloseTag(tag))
  /\ dlayout' = "base64"
  /\ dpc' = "payload"
  /\ UNCHANGED << dtext, dblocks, dsource, denh >>
  /\ UNCHANGED << src, history, ncalls, ivars, evars >>

\* test_cdata_xml_parsing: the text is wrapped in a CDATA block inside the
\* element, with or without white space around the block
BuildCDataPayload ==
  /\ dpc = "text"
  /\ \E tag \in SourceTags, space \in { << >>, << 10, 32 >> } :
       /\ dtag' = tag
       /\ dpayload' = Document(OpenTag(tag) \o space \o CDataOpen \o dtext \o CDataClose
                                \o space \o CloseTag(tag))
  /\ dlayout' = "cdata"
  /\ dpc' = "payload"
  /\ UNCHANGED << dtext, dblocks, dsource, denh >>
  /\ UNCHANGED << src, history, ncalls, ivars, evars >>

\* test_fallback_xml_parsing: a payload of neither layout: the bare text, the
\* text in a <content> element, or a source element that holds a <content>
\* element in the place of text
BuildOtherPayload ==
  /\ dpc = "text" /\ dtext \notin MarkupTexts
  /\ LET content == << 60, 99, 111, 110, 116, 101, 110, 116, 62 >> \o dtext \o << 60, 47, 99, 111, 110, 116, 101, 110, 116, 62 >>
     IN  \E tag \in SourceTags \cup { "" } :
           /\ dtag' = tag
           /\ dpayload' \in IF tag = "" THEN { dtext, Document(content) }
                             ELSE { Document(OpenTag(tag) \o content \o CloseTag(tag)) }
  /\ dlayout' = "other"
  /\ dpc' = "payload"
  /\ UNCHANGED << dtext, dblocks, dsource, denh >>
  /\ UNCHANGED << src, history, ncalls, ivars, evars >>

\* a text that can stand as the text content of an element and is no Base64
\* form of a str: b64decode or the UTF-8 decoding of its bytes raises
RawText(text) == 60 \notin Range(text) /\ ~DecodeSource(text).ok

\* the text itself, not encoded, is the text content of a <source> or
\* <enh:source> element
BuildRawPayload ==
  /\ dpc = "text" /\ RawText(dtext)
  /\ \E tag \in SourceTags :
       /\ dtag' = tag
       /\ dpayload' = Document(OpenTag(tag) \o dtext \o CloseTag(tag))
  /\ dlayout' = "raw"
  /\ dpc' = "payload"
  /\ UNCHANGED << dtext, dblocks, dsource, denh >>
  /\ UNCHANGED << src, history, ncalls, ivars, evars >>

\* the texts put into the payloads of the listing endpoint: "", "A", e acute
\* and "A" line break "<"
ListTexts == { << >>, << 65 >>, << 233 >>, << 65, 10, 60 >> }

\* the source elements of such a payload: the element name, the layout of
\* the text in it, and whether the enclosing element carries the attributes
\* adtcore:name and adtcore:type
BlockKinds(text) ==
  [ tag : SourceTags,
    layout : IF RawText(text) THEN { "base64", "cdata", "raw" } ELSE { "base64", "cdata" },
    attributes : BOOLEAN ]

ElementName == << 78 >>   \* "N"
ElementType == << 84 >>   \* "T"

\* the source element of a block on its own
BlockElement(block, text) ==
  OpenTag(block.tag)
  \o (IF block.layout = "base64" THEN b64encode(utf8_encode(text))
      ELSE IF block.layout = "cdata" THEN CDataOpen \o text \o CDataClose
      ELSE text)
  \o CloseTag(block.tag)

\* test_enhancement_list_xml_parsing lines 161-163: the source element inside
\* its <enhancement:element>, which carries the attributes or not
EnclosedBlock(block, text) ==
  (IF block.attributes
   THEN << 60, 101, 110, 104, 97, 110, 99, 101, 109, 101, 110, 116, 58, 101, 108, 101, 109, 101, 110, 116, 32 >>
        \o NameAttribute \o ElementName \o << 34, 32 >> \o TypeAttribute \o ElementType \o << 34, 62 >>
   ELSE << 60, 101, 110, 104, 97, 110, 99, 101, 109, 101, 110, 116, 58, 101, 108, 101, 109, 101, 110, 116, 62 >>)
  \o << 10 >> \o BlockElement(block, text) \o << 10 >>
  \o << 60, 47, 101, 110, 104, 97, 110, 99, 101, 109, 101, 110, 116, 58, 101, 108, 101, 109, 101, 110, 116, 62 >>

RECURSIVE EnclosedBlocks(_, _)
EnclosedBlocks(blocks, text) ==
  IF blocks = << >> THEN << >>
  ELSE EnclosedBlock(Head(blocks), text) \o << 10 >> \o EnclosedBlocks(Tail(blocks), text)

\* test_enhancement_list_xml_parsing lines 159-167: "<enhancement:elements>"
\* line break, the blocks, "</enhancement:elements>"
ListDocument(blocks, text) ==
  << 60, 101, 110, 104, 97, 110, 99, 101, 109, 101, 110, 116, 58, 101, 108, 101, 109, 101, 110, 116, 115, 62 >> \o << 10 >>
  \o EnclosedBlocks(blocks, text)
  \o << 60, 47, 101, 110, 104, 97, 110, 99, 101, 109, 101, 110, 116, 58, 101, 108, 101, 109, 101, 110, 116, 115, 62 >>

\* a payload of the listing endpoint is built: up to MaxBlocks source
\* elements, each holding the text in a layout of its own
BuildListPayload ==
  /\ dpc = "text" /\ dtext \in ListTexts
  /\ \E blocks \in SeqsUpTo(BlockKinds(dtext), MaxBlocks) :
       /\ dblocks' = blocks
       /\ dpayload' = ListDocument(blocks, dtext)
  /\ dlayout' = "list"
  /\ dpc' = "payload"
  /\ UNCHANGED << dtext, dtag, dsource, denh >>
  /\ UNCHANGED << src, history, ncalls, ivars, evars >>

\* the payload is handed to _parse_enhancement_source_from_xml
ParseEnhancementSource ==
  /\ dpc = "payload"
  /\ dsource' = << parse_enhancement_source_from_xml(dpayload) >>
  /\ dpc' = "single"
  /\ UNCHANGED << dtext, dlayout, dtag, dpayload, dblocks, denh >>
  /\ UNCHANGED << src, history, ncalls, ivars, evars >>

\* the payload is handed to _parse_enhancements_from_xml
ParseEnhancements ==
  /\ dpc = "single"
  /\ denh' = << parse_enhancements_from_xml(dpayload) >>
  /\ dpc' = "done"
  /\ UNCHANGED << dtext, dlayout, dtag, dpayload, dblocks, dsource >>
  /\ UNCHANGED << src, history, ncalls, ivars, evars >>

NextDecode ==
  \/ BuildBase64Payload \/ BuildCDataPayload \/ BuildRawPayload \/ BuildOtherPayload
  \/ BuildListPayload
  \/ ParseEnhancementSource \/ ParseEnhancements

SpecDecode == InitDecode /\ [][NextDecode]_vars

TypeOK ==
  /\ ipc \in { "idle", "walk", "done" }
  /\ epc \in { "idle", "class", "program", "include", "enrich", "discover", "discovering", "done" }
  /\ ncalls \in 0..MaxCalls
  /\ visited \subseteq { "program", "include" } \X Seq(0..127)

\* ------------------------------------------------- the include relation
\* names a unit's source text includes, as far as the backing store gives a text
DirectOf(s, key) ==
  IF key \in DOMAIN s /\ s[key].exc = "none" /\ s[key].status = 200 /\ s[key].hasText
  THEN { StripDecoration(Upper(s[key].lines[i])) : i \in 1..Len(s[key].lines) }
  ELSE {}

IncludeKey(name) == << "include", name >>

RECURSIVE Closure(_, _)
Closure(s, R) ==
  LET R2 == R \cup UNION { DirectOf(s, IncludeKey(n)) : n \in R }
  IN  IF R2 = R THEN R ELSE Closure(s, R2)

\* names reachable from a unit by one or more include edges
ReachableFrom(s, key) == Closure(s, DirectOf(s, key))

RootKey == << icall.object_type, Upper(icall.object_name) >>

Returned == ipc = "done" /\ iresult.kind = "returned"

Occurrences(seq, x) == Cardinality({ i \in 1..Len(seq) : seq[i] = x })

\* ---------------------------------------------------------------- C1
\* the universe of keys of one behaviour
AllNames ==
  { Upper(n) : n \in RootNames } \cup { StripDecoration(Upper(t)) : t \in Tokens }
AllKeys == { "program", "include" } \X AllNames

Unvisited == Cardinality(AllKeys \ visited)

FrameWeight(f) ==
  IF f.at = "enter" THEN 1 ELSE 1 + 2 * (Len(f.direct_includes) + 1 - f.next)

RECURSIVE StackWeight(_)
StackWeight(st) == IF st = << >> THEN 0 ELSE FrameWeight(Head(st)) + StackWeight(Tail(st))

\* C1: get_includes_list terminates on every include graph, cyclic or not, and
\* under every pattern of fetch failures: every step of the traversal either
\* ends the call or strictly decreases the pair (number of keys not yet
\* visited, pending work on the stack) in the lexicographic order, and a call
\* that has entered the traversal ends with a response.
C1_Terminates ==
  /\ [][ ipc = "walk" =>
           \/ ipc' = "done"
           \/ Unvisited' < Unvisited
           \/ Unvisited' = Unvisited /\ StackWeight(stack') < StackWeight(stack) ]_vars
  /\ (ipc = "walk") ~> Returned

\* a traversal of a graph with a cycle has ended
C1_Witness ==
  /\ Returned
  /\ \E n \in AllNames :
       /\ IncludeKey(n) \in Range(fetchLog)
       /\ n \in ReachableFrom(src, IncludeKey(n))

\* ---------------------------------------------------------------- C2
\* C2: within one call no key is handed to _fetch_source twice.
C2_FetchedOnce ==
  \A i, j \in 1..Len(fetchLog) : fetchLog[i] = fetchLog[j] => i = j

\* a name included by two different fetched units, and by the upper-cased
\* spelling of a lower-case root, has been fetched
C2_Witness ==
  /\ Returned
  /\ \E n \in AllNames :
       /\ IncludeKey(n) \in Range(fetchLog)
       /\ Cardinality({ k \in Range(fetchLog) : n \in DirectOf(src, k) }) >= 2
  /\ icall.object_name # Upper(icall.object_name)

\* ---------------------------------------------------------------- C3
\* no unit of the graph under the root includes itself, directly or not
Acyclic ==
  /\ Upper(icall.object_name) \notin
       (IF icall.object_type = "include" THEN ReachableFrom(src, RootKey) ELSE {})
  /\ \A n \in ReachableFrom(src, RootKey) : n \notin ReachableFrom(src, IncludeKey(n))

\* every source the call asked for was delivered
AllFetched ==
  \A i \in 1..Len(fetchLog) : fetch_source(src[fetchLog[i]]).some

\* C3: on an acyclic graph whose sources can all be fetched the response lists
\* exactly the names reachable from the root by one or more include edges,
\* each once.
C3_ExactlyReachable ==
  (Returned /\ Acyclic /\ AllFetched) =>
     /\ Range(iresult.includes) = ReachableFrom(src, RootKey)
     /\ \A n \in ReachableFrom(src, RootKey) : Occurrences(iresult.includes, n) = 1

\* an acyclic graph of depth two with two names under the root
C3_Witness ==
  /\ Returned /\ Acyclic /\ AllFetched
  /\ Cardinality(ReachableFrom(src, RootKey)) >= 2
  /\ \E n \in DirectOf(src, RootKey) : DirectOf(src, IncludeKey(n)) # {}
  /\ Range(iresult.includes) = ReachableFrom(src, RootKey)

\* ---------------------------------------------------------------- C4
\* the root is included by something it includes
RootInCycle == Upper(icall.object_name) \in ReachableFrom(src, RootKey)

\* C4: when the root is reachable from itself through a cycle, its name is in
\* the response exactly once, as is every other name of the cycle, and the
\* root's source is fetched once under the root's kind.
C4_CycleKeepsRoot ==
  (Returned /\ RootInCycle) =>
     /\ Occurrences(iresult.includes, Upper(icall.object_name)) = 1
     /\ \A n \in ReachableFrom(src, RootKey) : Occurrences(iresult.includes, n) = 1
     /\ Occurrences(fetchLog, RootKey) = 1

\* root A of kind include, A includes B, B includes A, and nothing else
C4_Witness ==
  /\ Returned
  /\ icall.object_type = "include"
  /\ \E b \in AllNames :
       /\ b # Upper(icall.object_name)
       /\ DirectOf(src, RootKey) = { b }
       /\ DirectOf(src, IncludeKey(b)) = { Upper(icall.object_name) }
       /\ iresult.includes \in { << Upper(icall.object_name), b >>, << b, Upper(icall.object_name) >> }

\* ---------------------------------------------------------------- C5
ValidArguments ==
  icall.object_name # << >> /\ icall.object_type \in { "program", "include" }

\* C5: a call with valid arguments never raises, whatever the fetches answer,
\* and every name listed in a fetched source is in the response and has been
\* traversed, also when the fetch of a sibling (or of the unit itself) failed.
C5_FailSoft ==
  (ipc = "done" /\ ValidArguments) =>
     /\ iresult.kind = "returned"
     /\ \A k \in Range(fetchLog) : \A n \in DirectOf(src, k) :
          /\ n \in Range(iresult.includes)
          /\ IncludeKey(n) \in Range(fetchLog)

FetchFailedBy(key, exc) ==
  key \in DOMAIN src /\ src[key].exc = exc

\* a parent lists X then Y: the fetch of X fails with a transport exception,
\* Y is fetched and has includes of its own
C5_Witness ==
  /\ Returned
  /\ \E k \in Range(fetchLog) :
       LET direct_includes == parse_includes(src[k].lines)
       IN  /\ Len(direct_includes) = 2
           /\ FetchFailedBy(IncludeKey(direct_includes[1]), "Exception")
           /\ DirectOf(src, IncludeKey(direct_includes[2])) # {}
           /\ direct_includes[2] \in Range(iresult.includes)

\* ---------------------------------------------------------------- C7
\* C7: the list under "includes" is strictly ascending in the order of str
\* (so no name is in it twice) and includes_count is its length.
C7_SortedUnique ==
  Returned =>
     /\ \A i \in 1..(Len(iresult.includes) - 1) :
          StrLess(iresult.includes[i], iresult.includes[i + 1])
     /\ iresult.includes_count = Len(iresult.includes)

\* a response with at least two names, found in another order than the sorted one
C7_Witness ==
  /\ Returned
  /\ Len(iresult.includes) >= 2
  /\ \E k \in Range(fetchLog) :
       LET direct_includes == parse_includes(src[k].lines)
       IN  Len(direct_includes) >= 2 /\ StrLess(direct_includes[2], direct_includes[1])

\* ---------------------------------------------------------------- C8
CallKey == << icall.object_name, icall.object_type >>

\* C8: a call returns the include list that the first call on the same root
\* returned, whatever calls were made in between.
C8_Idempotent ==
  (Returned /\ CallKey \in DOMAIN history) => iresult.includes = history[CallKey]

\* the third call repeats the first one, with another root called in between,
\* and both roots have includes
C8_Witness ==
  /\ Returned
  /\ ncalls = 3
  /\ Cardinality(DOMAIN history) >= 2
  /\ iresult.includes # << >>
  /\ \E other \in DOMAIN history : other # CallKey /\ history[other] \notin { << >>, iresult.includes }

\* ---------------------------------------------------------------- C6
\* C6: a get_includes_list call with an empty object_name or an object_type
\* other than program and include raises ValueError without a source fetch,
\* and a get_enhancements call with an empty object_name raises ValueError
\* without a kind probe, an enrichment fetch or a source fetch.
C6_ValidationFirst ==
  /\ (ipc = "done" /\ ~ValidArguments) =>
        /\ iresult = Raised("ValueError")
        /\ fetchLog = << >>
  /\ (epc # "idle" /\ ecall.object_name = << >>) =>
        /\ epc = "done"
        /\ eresult = Raised("ValueError")
        /\ elog = << >> /\ fetchLog = << >> /\ src = << >>

\* a recursive get_enhancements call with an empty name and a program hint
\* has been rejected
C6_Witness ==
  /\ epc = "done"
  /\ ecall.object_name = << >> /\ ecall.include_nested /\ Truthy(ecall.program)
  /\ eresult = Raised("ValueError")

\* ---------------------------------------------------------------- C9
SameUnit(e, f) == e.idx = f.idx /\ e.object_name = f.object_name

\* C9: the probes of a unit are made in the order Class, Program, Include,
\* each only after the one before it did not report existence, and the first
\* probe that reports existence decides the kind the unit is fetched as; a
\* unit that exists as a program (and not as a class) gets no Include probe
\* and no context.
C9_ProbeOrder ==
  /\ \A i \in 1..Len(elog) :
       /\ (elog[i].op = "probe" /\ elog[i].kind = "class") =>
             (i = 1 \/ ~SameUnit(elog[i - 1], elog[i]))
       /\ (elog[i].op = "probe" /\ elog[i].kind = "program") =>
             /\ i > 1 /\ SameUnit(elog[i - 1], elog[i])
             /\ elog[i - 1].op = "probe" /\ elog[i - 1].kind = "class" /\ ~elog[i - 1].exists
       /\ (elog[i].op = "probe" /\ elog[i].kind = "include") =>
             /\ i > 1 /\ SameUnit(elog[i - 1], elog[i])
             /\ elog[i - 1].op = "probe" /\ elog[i - 1].kind = "program" /\ ~elog[i - 1].exists
       /\ elog[i].op = "enrich" =>
             /\ i > 1 /\ SameUnit(elog[i - 1], elog[i])
             /\ elog[i - 1].op = "probe" /\ elog[i - 1].exists
             /\ elog[i].kind = elog[i - 1].kind
             /\ elog[i].kind \in { "class", "program" } => elog[i].context = << >>
  /\ (elog # << >> /\ elog[Len(elog)].op = "probe" /\ elog[Len(elog)].kind \in { "class", "program" }
        /\ elog[Len(elog)].exists) =>
        /\ epc = "enrich"
        /\ einfo = [ type |-> elog[Len(elog)].kind, context |-> << >> ]
  /\ (epc = "done" /\ eresult.kind = "returned" /\ ~eresult.combined) =>
        /\ eresult.report.object_type = elog[Len(elog)].kind
        /\ eresult.report.object_type \in { "class", "program" } => eresult.report.context = << >>

\* a name that exists as a program and not as a class has been resolved and
\* fetched as a program after exactly two probes
C9_Witness ==
  /\ epc = "done" /\ eresult.kind = "returned" /\ ~eresult.combined
  /\ eresult.report.object_type = "program"
  /\ Len(elog) = 3
  /\ elog[1].kind = "class" /\ ~elog[1].exists
  /\ elog[2].kind = "program" /\ elog[2].exists

\* ---------------------------------------------------------------- C10
\* the unit of the probe at position i of the log went on to the enrichment
\* fetch as an include
ResolvedAsInclude(i) ==
  \/ i = Len(elog) /\ epc = "enrich" /\ einfo.type = "include"
  \/ /\ i < Len(elog) /\ SameUnit(elog[i], elog[i + 1])
     /\ elog[i + 1].op = "enrich" /\ elog[i + 1].kind = "include"
ContextUsed(i) == IF i = Len(elog) THEN einfo.context ELSE elog[i + 1].context

\* C10: for a unit that exists as an include the context is the one built
\* from the caller's program hint when a (non-empty) hint was given, whatever
\* the metadata says; otherwise the contextRef of the metadata; and when there
\* is neither, no enrichment fetch is made for the unit and, for the root,
\* the call fails with an AdtError.
C10_IncludeContext ==
  \A i \in 1..Len(elog) :
    (elog[i].op = "probe" /\ elog[i].kind = "include" /\ elog[i].exists) =>
       IF Truthy(ecall.program)
       THEN ResolvedAsInclude(i) /\ ContextUsed(i) = << ProgramContext(ecall.program[1]) >>
       ELSE IF elog[i].context # << >>
       THEN ResolvedAsInclude(i) /\ ContextUsed(i) = elog[i].context
       ELSE /\ ~ResolvedAsInclude(i)
            /\ i = Len(elog) \/ ~SameUnit(elog[i], elog[i + 1])
            /\ elog[i].idx = 0 => (epc = "done" /\ eresult = RaisedAdt(400))

\* an include whose metadata names another context than the hint has been
\* fetched under the hint's context
C10_Witness ==
  /\ epc = "done" /\ eresult.kind = "returned" /\ ~eresult.combined
  /\ Truthy(ecall.program)
  /\ eresult.report.object_type = "include"
  /\ eresult.report.context = << ProgramContext(ecall.program[1]) >>
  /\ \E i \in 1..Len(elog) :
       /\ elog[i].op = "probe" /\ elog[i].kind = "include"
       /\ elog[i].context # << >> /\ elog[i].context # eresult.report.context

\* ---------------------------------------------------------------- C11
\* the probes of the root ended without a kind: the Include probe did not
\* report existence, or it did and neither a hint nor a contextRef gives
\* the include a context
RootUnresolved ==
  \E i \in 1..Len(elog) :
    /\ elog[i].op = "probe" /\ elog[i].idx = 0 /\ elog[i].kind = "include"
    /\ \/ ~elog[i].exists
       \/ ~Truthy(ecall.program) /\ elog[i].context = << >>

\* C11: when the kind probing of the root fails, the get_enhancements call
\* has ended by raising AdtError(400), in recursive and in non-recursive
\* mode, and it made no enrichment fetch, no include discovery (no source
\* fetch) and no request for any other unit than the root.
C11_RootFailureFatal ==
  RootUnresolved =>
     /\ epc = "done"
     /\ eresult = RaisedAdt(400)
     /\ eobjects = << >>
     /\ \A i \in 1..Len(elog) : elog[i].op = "probe" /\ elog[i].idx = 0
     /\ ipc = "idle" /\ fetchLog = << >> /\ src = << >>

\* a recursive call whose root exists as an include only, without a hint and
\* without a contextRef in the metadata, has been rejected
C11_Witness ==
  /\ epc = "done" /\ ecall.include_nested /\ ~Truthy(ecall.program)
  /\ eresult = RaisedAdt(400)
  /\ Len(elog) = 3
  /\ elog[3].kind = "include" /\ elog[3].exists /\ elog[3].context = << >>

\* ---------------------------------------------------------------- C12
\* the enrichment fetch at position i of the log delivered a report
Delivered(i) ==
  /\ elog[i].op = "enrich"
  /\ ~elog[i].answer.exc /\ elog[i].answer.status = 200 /\ elog[i].answer.hasText

\* the unit number k was given up at its probes or at its enrichment fetch
FailedUnit(k) ==
  /\ \E i \in 1..Len(elog) : elog[i].idx = k
  /\ ~\E i \in 1..Len(elog) : elog[i].idx = k /\ Delivered(i)

\* C12: once include discovery has returned a list, a recursive call ends
\* with a combined report only, and by then every include of the list has
\* been attempted (its Class probe was made), whichever of the others failed
\* at a probe, at the context or at the enrichment fetch.
C12_BatchNotAborted ==
  /\ (epc = "done" /\ ipc = "done" /\ iresult.kind = "returned") =>
        /\ eresult.kind = "returned" /\ eresult.combined
        /\ \A k \in 1..Len(iresult.includes) :
             \E i \in 1..Len(elog) :
               /\ elog[i].op = "probe" /\ elog[i].kind = "class"
               /\ elog[i].idx = k /\ elog[i].object_name = iresult.includes[k]
  /\ (epc \in { "class", "program", "include", "enrich" } /\ eunit.idx > 0) =>
        /\ eincludes = iresult.includes
        /\ eunit.object_name = eincludes[eunit.idx]

\* two discovered includes: the fetch of the first failed by a transport
\* error, the second was fetched and is in the combined report
C12_Witness ==
  /\ epc = "done" /\ eresult.kind = "returned" /\ eresult.combined
  /\ Len(eincludes) = 2
  /\ \E i \in 1..Len(elog) : elog[i].idx = 1 /\ elog[i].op = "enrich" /\ elog[i].answer.exc
  /\ \E i \in 1..Len(elog) : elog[i].idx = 2 /\ Delivered(i)
  /\ Len(eresult.objects) = 2
  /\ eresult.objects[2].object_name = eincludes[2]

\* ---------------------------------------------------------------- C13
\* the units (0 is the root, k the k-th discovered include) whose enrichment
\* fetch delivered a report
DeliveredUnits ==
  { k \in 0..Len(eincludes) : \E i \in 1..Len(elog) : elog[i].idx = k /\ Delivered(i) }

\* the number of source blocks in the payload delivered for unit k
FragmentsOf(k) ==
  LET i == CHOOSE i \in 1..Len(elog) : elog[i].idx = k /\ Delivered(i)
  IN  Len(elog[i].answer.payload)

RECURSIVE SumFragments(_)
SumFragments(K) ==
  IF K = {} THEN 0
  ELSE LET k == CHOOSE k \in K : TRUE IN FragmentsOf(k) + SumFragments(K \ {k})

CombinedReturned == epc = "done" /\ eresult.kind = "returned" /\ eresult.combined

\* C13: in a combined report total_objects_analyzed is 1 plus the number of
\* discovered includes whose fetch delivered a report, and the length of
\* objects; objects holds the root and then those includes in the order of
\* discovery; total_enhancements_found is the number of source blocks
\* delivered for exactly those units.
C13_Totals ==
  CombinedReturned =>
     LET D == DeliveredUnits
         report == eresult
     IN  /\ 0 \in D
         /\ report.total_objects_analyzed = Cardinality(D)
         /\ report.total_objects_analyzed = Len(report.objects)
         /\ report.objects[1].object_name = ecall.object_name
         /\ report.objects[1].enhancement_count = FragmentsOf(0)
         /\ \A k \in D \ {0} :
              LET j == 1 + Cardinality({ m \in D : m < k })
              IN  /\ report.objects[j].object_name = eincludes[k]
                  /\ report.objects[j].enhancement_count = FragmentsOf(k)
         /\ report.total_enhancements_found = SumFragments(D)

\* three discovered includes of which the second failed: the report counts
\* three units, and three source blocks, one of each unit that was delivered
C13_Witness ==
  /\ CombinedReturned
  /\ Len(eincludes) = 3
  /\ DeliveredUnits = { 0, 1, 3 }
  /\ FailedUnit(2)
  /\ \A k \in DeliveredUnits : FragmentsOf(k) = 1
  /\ eresult.total_objects_analyzed = 3
  /\ eresult.total_enhancements_found = 3

\* ---------------------------------------------------------------- C14
\* the names under which a combined report records a failure. The report of
\* lines 304-313 has the keys main_object, include_nested, the two totals
\* and objects: a failure could be recorded under a key of its own or as an
\* entry of objects
PerUnitErrors(report) ==
  (IF "errors" \in DOMAIN report THEN DOMAIN report.errors ELSE {})
  \cup { report.objects[j].object_name :
           j \in { j \in 1..Len(report.objects) : "error" \in DOMAIN report.objects[j] } }

FailedIncludes == { eincludes[k] : k \in { k \in 1..Len(eincludes) : FailedUnit(k) } }

\* C14: the combined report records every discovered include whose fetch
\* failed under the include's name, and nothing else, so that k failed
\* includes give k error entries.
C14_ErrorsRecorded ==
  CombinedReturned => PerUnitErrors(eresult) = FailedIncludes

\* ---------------------------------------------------------------- C15
\* the enrichment fetch of the root delivered a report
RootDelivered == \E i \in 1..Len(elog) : elog[i].idx = 0 /\ Delivered(i)

\* C15: a recursive call whose root was resolved and fetched ends with a
\* combined report, whatever kind the root has and whatever fails afterwards.
C15_AlwaysReport ==
  (epc = "done" /\ ecall.include_nested /\ RootDelivered) => CombinedReturned

\* ---------------------------------------------------------------- C16
\* the parent-program context of the root: the one built from the hint when
\* a hint was supplied, else the one resolved for the root (none for a root
\* that is no include)
RootContext ==
  IF Truthy(ecall.program) THEN << ProgramContext(ecall.program[1]) >>
  ELSE eobjects[1].context

\* C16: every enrichment fetch of a discovered include that is fetched as an
\* include is made under the parent-program context of the root, whenever
\* the root has one (a hint was supplied, or the root is an include).
C16_SameContext ==
  \A i \in 1..Len(elog) :
    (elog[i].op = "enrich" /\ elog[i].idx > 0 /\ elog[i].kind = "include"
       /\ RootContext # << >>) =>
       elog[i].context = RootContext

\* ---------------------------------------------------------------- C17
\* a recursive call has ended whose root was resolved and fetched, has no
\* source block attached and no include statement in any source read for it
EmptyRoot ==
  /\ epc = "done" /\ ecall.include_nested
  /\ RootDelivered /\ FragmentsOf(0) = 0
  /\ \A k \in DOMAIN src : k[2] = Upper(ecall.object_name) => DirectOf(src, k) = {}

\* C17: the recursive call on an empty root returns a report of one unit, no
\* enhancement and an empty enhancements list of the root.
C17_EmptyRoot ==
  EmptyRoot =>
     /\ CombinedReturned
     /\ eresult.total_objects_analyzed = 1
     /\ eresult.total_enhancements_found = 0
     /\ Len(eresult.objects) = 1
     /\ eresult.objects[1].enhancements = << >>

\* ---------------------------------------------------------------- C18
Decoded == dpc \in { "single", "done" }

\* the source texts _parse_enhancements_from_xml returned
SourceCodes == [ i \in 1..Len(denh[1]) |-> denh[1][i].source_code ]

\* C18 as stated: every text, the empty one included, comes back from the
\* Base64 layout: from _parse_enhancement_source_from_xml (dsource) for both
\* elements, and from _parse_enhancements_from_xml for <enh:source>.
C18_RoundTripAll ==
  (dlayout = "base64" /\ Decoded) =>
     /\ dsource = << dtext >>
     /\ (dpc = "done" /\ dtag = "enh:source") => SourceCodes = << << dtext >> >>

\* C18 (amended): every non-empty text comes back from the Base64 layout
\* exactly; for the empty text the element has no content, so
\* _parse_enhancement_source_from_xml returns the payload and
\* _parse_enhancements_from_xml a record without source_code.
C18_RoundTrip ==
  (dlayout = "base64" /\ Decoded) =>
     IF dtext # << >>
     THEN /\ dsource = << dtext >>
          /\ (dpc = "done" /\ dtag = "enh:source") => SourceCodes = << << dtext >> >>
     ELSE /\ dsource = << dpayload >>
          /\ (dpc = "done" /\ dtag = "enh:source") => SourceCodes = << << >> >>

\* a text with a character of two bytes, a line break and "<", whose Base64
\* form is padded, has come back from both decoders
C18_Witness ==
  /\ dlayout = "base64" /\ dpc = "done" /\ dtag = "enh:source"
  /\ { 233, 10, 60 } \subseteq Range(dtext)
  /\ Len(utf8_encode(dtext)) % 3 # 0
  /\ dsource = << dtext >>
  /\ SourceCodes = << << dtext >> >>

\* ---------------------------------------------------------------- C19
Contains(s, lit) == \E i \in 1..Len(s) : HasPrefixAt(s, i, lit)

\* C19, for the texts a CDATA block can hold (no "]]>" inside) and the empty
\* text apart: _parse_enhancement_source_from_xml returns the text wrapped
\* in the CDATA block of a <source> or <enh:source> element exactly, markup
\* characters included.
C19_CDataExact ==
  (dlayout = "cdata" /\ Decoded /\ dtext # << >> /\ ~Contains(dtext, CDataClose)) =>
     dsource = << dtext >>

\* the same for the texts that hold no <source or <enh:source tag of their
\* own, where it holds
C19_CDataPlain ==
  (dlayout = "cdata" /\ Decoded /\ dtext # << >> /\ ~Contains(dtext, CDataClose)
     /\ ~Contains(dtext, LtSource) /\ ~Contains(dtext, LtEnhSource)) =>
     dsource = << dtext >>

\* ---------------------------------------------------------------- C20
\* C20: for a payload of neither layout _parse_enhancement_source_from_xml
\* returns the payload itself, unchanged, which for a payload that is not
\* empty is never an empty result (a result stands for a return: the
\* function has no other outcome).
C20_FallbackUnchanged ==
  (dlayout = "other" /\ Decoded) =>
     /\ dsource = << dpayload >>
     /\ dpayload # << >> => dsource[1] # << >>

\* a document that holds a <content> element with markup characters and a
\* line break, and no source element, has come back unchanged
C20_Witness ==
  /\ dlayout = "other" /\ Decoded /\ dtag = ""
  /\ { 60, 10 } \subseteq Range(dtext)
  /\ Len(dpayload) > Len(dtext)
  /\ dsource = << dpayload >>

\* ---------------------------------------------------------------- C21
ListDecoded == dlayout = "list" /\ dpc = "done"

\* the source blocks of the payload in the sense of enhancements.py lines
\* 56-57: the <enh:source> elements whose content is text
SourceBlocks == SelectSeq(dblocks, LAMBDA b : b.tag = "enh:source" /\ b.layout # "cdata")

\* C21: _parse_enhancements_from_xml returns one record per source block,
\* in the order of the payload; the record of a block whose text is not
\* decodable holds that text as source_code, and the blocks after it are
\* decoded as if it were not there (a block of Base64 text gives the text,
\* an empty one no source_code).
C21_OnePerBlock ==
  ListDecoded =>
     /\ Len(denh[1]) = Len(SourceBlocks)
     /\ \A i \in 1..Len(SourceBlocks) :
          denh[1][i].source_code =
            IF SourceBlocks[i].layout = "raw" THEN << dtext >>
            ELSE IF dtext = << >> THEN << >>
            ELSE << dtext >>

\* a block whose text is no Base64 is followed by a block of Base64 text:
\* two records, the first with the raw text, the second with the decoded one
C21_Witness ==
  /\ ListDecoded
  /\ Len(dblocks) = 2 /\ SourceBlocks = dblocks
  /\ dblocks[1].layout = "raw" /\ dblocks[2].layout = "base64"
  /\ RawText(dtext)
  /\ Len(denh[1]) = 2
  /\ denh[1][1].source_code = << dtext >>
  /\ denh[1][2].source_code = << dtext >>

\* ---------------------------------------------------------------- C22
\* C22: the record of the i-th source block has the name and the kind of
\* the adtcore:name and adtcore:type attributes of the element around the
\* block when it carries them, and the name enhancement_{i} and the kind
\* enhancement when it does not.
C22_NamesFromAttributes ==
  ListDecoded =>
     \A i \in 1..Len(SourceBlocks) :
        i <= Len(denh[1]) =>
           IF SourceBlocks[i].attributes
           THEN denh[1][i].name = ElementName /\ denh[1][i].type = ElementType
           ELSE denh[1][i].name = DefaultName(i - 1) /\ denh[1][i].type = DefaultType

\* ---------------------------------------------------------------- C23
\* C23: for a payload whose <source> or <enh:source> element holds a text
\* that is not decodable as Base64, _parse_enhancement_source_from_xml
\* returns that text.
C23_RawTextKept ==
  (dlayout = "raw" /\ Decoded) => dsource = << dtext >>

\* ---------------------------------------------------------------- C24
\* C24: _parse_enhancements_from_xml returns one record per block of the
\* payload, whatever the layout and the element name of the block, and the
\* source_code of the record is what _parse_enhancement_source_from_xml
\* returns for the block alone.
C24_SameRules ==
  ListDecoded =>
     /\ Len(denh[1]) = Len(dblocks)
     /\ \A i \in 1..Len(dblocks) :
          i <= Len(denh[1]) =>
             denh[1][i].source_code =
               << parse_enhancement_source_from_xml(BlockElement(dblocks[i], dtext)) >>

\* ---------------------------------------------------------------- C25
\* C25: _parse_includes yields no empty name and no name twice for one unit:
\* the direct_includes of every unit hold no empty name and every name once,
\* and no empty name is in found or is handed to _fetch_source.
C25_NoEmptyName ==
  /\ \A f \in Range(stack) :
       /\ << >> \notin Range(f.direct_includes)
       /\ \A i, j \in 1..Len(f.direct_includes) :
            f.direct_includes[i] = f.direct_includes[j] => i = j
  /\ << >> \notin found
  /\ \A i \in 1..Len(fetchLog) : fetchLog[i][2] # << >>

\* ---------------------------------------------------------------- C28
\* the source of the unit could not be fetched
Unfetchable(key) == key \in DOMAIN src /\ ~fetch_source(src[key]).some

\* C28: every name in an include statement of a fetched unit is in the
\* response, also when its own source cannot be fetched; the response holds
\* exactly the names reachable from the root through fetched units, so that
\* only names behind an unfetchable unit are missing; and a name is in found
\* at the time its source is asked for.
C28_NameKept ==
  /\ [](Returned =>
          /\ \A k \in Range(fetchLog) : \A n \in DirectOf(src, k) :
               n \in Range(iresult.includes)
          /\ Range(iresult.includes) = ReachableFrom(src, RootKey))
  /\ [][ (ipc = "walk" /\ Len(fetchLog') > Len(fetchLog) /\ Len(stack) > 1) =>
           fetchLog'[Len(fetchLog')][2] \in found ]_vars

\* the root lists two names: the first cannot be fetched and is in the
\* response, the second is fetched and brings a name of its own
C28_Witness ==
  /\ Returned
  /\ LET direct_includes == parse_includes(src[RootKey].lines)
     IN  /\ Len(direct_includes) = 2
         /\ Unfetchable(IncludeKey(direct_includes[1]))
         /\ direct_includes[1] \in Range(iresult.includes)
         /\ DirectOf(src, IncludeKey(direct_includes[2])) \ Range(direct_includes) # {}
         /\ Len(iresult.includes) = 3

\* ---------------------------------------------------------------- C26
\* a request (kind probe or enrichment fetch) for a discovered include was made
IncludeRequested == \E i \in 1..Len(elog) : elog[i].idx > 0

IsClassProbe(i) == elog[i].op = "probe" /\ elog[i].kind = "class"

\* the state of a recursive call at any time: discovery has started only if
\* the root's response exists; a request for an include has been made only
\* if discovery has returned; the requests follow the sorted list, the
\* requests of a name standing together and beginning with its one Class
\* probe; the root's response is the first
PhaseOrder ==
  /\ ipc # "idle" =>
       /\ RootDelivered
       /\ eobjects # << >> /\ eobjects[1].object_name = ecall.object_name
  /\ IncludeRequested =>
       /\ ipc = "done" /\ iresult.kind = "returned"
       /\ eincludes = iresult.includes
  /\ \A k \in 1..(Len(eincludes) - 1) : StrLess(eincludes[k], eincludes[k + 1])
  /\ \A i \in 2..Len(elog) :
       /\ elog[i - 1].idx <= elog[i].idx
       /\ IsClassProbe(i) <=> elog[i - 1].idx < elog[i].idx
  /\ \A i \in 1..Len(elog) :
       elog[i].idx > 0 => elog[i].object_name = eincludes[elog[i].idx]
  /\ CombinedReturned =>
       /\ \A k \in 1..Len(eincludes) :
            \E i \in 1..Len(elog) : IsClassProbe(i) /\ elog[i].idx = k
       /\ eresult.objects[1].object_name = ecall.object_name
       /\ eresult.objects[1].enhancement_count = FragmentsOf(0)

\* C26: in a recursive get_enhancements call include discovery starts only
\* when the root's response exists, and until it has returned no request for
\* an include is made and afterwards no source is fetched; the discovered
\* names are then analysed one after the other in the order of the sorted
\* list, each once, and the root's response is the first of objects.
C26_Phases ==
  /\ []PhaseOrder
  /\ [][ IncludeRequested => fetchLog' = fetchLog ]_vars
  /\ [][ ipc = "walk" => elog' = elog ]_vars

\* three includes, listed by the root in another order than the sorted one,
\* have all been analysed after the root
C26_Witness ==
  /\ CombinedReturned
  /\ Len(eincludes) = 3
  /\ LET direct_includes == parse_includes(src[RootKey].lines)
     IN  Len(direct_includes) = 3 /\ StrLess(direct_includes[3], direct_includes[1])
  /\ Len(eresult.objects) = 4
  /\ \A k \in 1..3 : eresult.objects[k + 1].object_name = eincludes[k]

\* ---------------------------------------------------------------- C27
\* the procedure has raised for the unit of the last request of the log
ProbingFailed == ecaught.error # "none"

\* C27: a Class or Program probe that does not report existence, by an
\* exception of the request or by another status than 200, is followed by
\* the probe of the next kind for the same unit, and the call has no outcome
\* by it; the procedure fails at the Include probe only, after both other
\* probes, and what it raises is AdtError(400) also when the request of the
\* Include probe raised (for the root it is the outcome of the call).
C27_ProbingGoesOn ==
  /\ \A i \in 1..Len(elog) :
       (elog[i].op = "probe" /\ elog[i].kind \in { "class", "program" } /\ ~elog[i].exists) =>
          LET next == IF elog[i].kind = "class" THEN "program" ELSE "include"
          IN  IF i = Len(elog)
              THEN epc = next /\ eunit.idx = elog[i].idx /\ ~ProbingFailed
              ELSE /\ SameUnit(elog[i], elog[i + 1])
                   /\ elog[i + 1].op = "probe" /\ elog[i + 1].kind = next
  /\ (~ProbingFailed /\ (ecaught.class_error \/ ecaught.program_error)) =>
        /\ epc \in { "program", "include" }
        /\ eresult = NoResult
  /\ ProbingFailed =>
        LET n == Len(elog)
        IN  /\ n >= 3
            /\ elog[n].op = "probe" /\ elog[n].kind = "include"
            /\ SameUnit(elog[n - 1], elog[n]) /\ elog[n - 1].kind = "program" /\ ~elog[n - 1].exists
            /\ SameUnit(elog[n - 2], elog[n]) /\ elog[n - 2].kind = "class" /\ ~elog[n - 2].exists
            /\ elog[n].idx = 0 => (epc = "done" /\ eresult = RaisedAdt(400))

\* the requests of all three probes of the root raised: the first two
\* exceptions were caught and the next probe made, the third ended the call
\* with AdtError(400)
C27_Witness ==
  /\ epc = "done" /\ eunit.idx = 0
  /\ ecaught = [ class_error |-> TRUE, program_error |-> TRUE, error |-> "Exception" ]
  /\ Len(elog) = 3
  /\ eresult = RaisedAdt(400)

\* ---------------------------------------------------------------- C29
\* the requests that the call is about to make: the source fetches of the
\* coroutines that have not yet asked for their source, and the kind probe
\* or enrichment fetch of the current unit
PendingRequests ==
  (IF ipc = "walk" THEN Cardinality({ i \in 1..Len(stack) : stack[i].at = "enter" }) ELSE 0)
  + (IF epc \in { "class", "program", "include", "enrich" } THEN 1 ELSE 0)

\* every coroutine but the innermost is suspended in the await of line 119,
\* waiting for the coroutine above it
OneFlow ==
  /\ PendingRequests <= 1
  /\ \A i \in 1..(Len(stack) - 1) :
       /\ stack[i].at = "loop"
       /\ stack[i].next > 1
       /\ stack[i + 1].object_name = stack[i].direct_includes[stack[i].next - 1]
  /\ epc = "discovering" \/ ipc \in { "idle", "done" } \/ epc = "idle"

\* C29: the remote calls of a call are made one at a time: never is more
\* than one request about to be made, the coroutines below the innermost one
\* wait for it, and visited, found and the list of responses change only by
\* the step of that one flow: the innermost coroutine adds its key or the
\* name of its current include statement, the fetch of the current unit
\* appends its response.
C29_Sequential ==
  /\ []OneFlow
  /\ [][ visited' # visited =>
           /\ ipc = "walk" /\ Top.at = "enter"
           /\ visited' = visited \cup { VisitedKey(Top.object_name, Top.object_type) } ]_vars
  /\ [][ found' # found =>
           /\ ipc = "walk" /\ Top.at = "loop"
           /\ found' = found \cup { Top.direct_includes[Top.next] } ]_vars
  /\ [][ eobjects' # eobjects =>
           /\ epc = "enrich" /\ ipc \in { "idle", "done" }
           /\ Len(eobjects') = Len(eobjects) + 1
           /\ SubSeq(eobjects', 1, Len(eobjects)) = eobjects
           /\ eobjects'[Len(eobjects')].object_name = eunit.object_name ]_vars

\* the discovery of a recursive get_enhancements call is two levels deep: one
\* source fetch is about to be made, for the second include of a unit whose
\* first include has been dealt with
C29_Witness ==
  /\ epc = "discovering" /\ ipc = "walk"
  /\ Len(stack) = 2
  /\ stack[2].at = "enter" /\ stack[1].next = 3
  /\ Len(fetchLog) >= 2
  /\ PendingRequests = 1

\* ---------------------------------------------------------------- C30
\* C30: the requests for a discovered include begin with the Class probe,
\* as the root's do; a discovered name that exists as a class, or as a
\* program and not as a class, is fetched as that kind without a context,
\* and its response in objects carries that kind and no context.
C30_KindDecidedAgain ==
  /\ \A i \in 2..Len(elog) :
       elog[i - 1].idx < elog[i].idx => IsClassProbe(i)
  /\ \A i \in 1..Len(elog) :
       (elog[i].idx > 0 /\ elog[i].op = "probe" /\ elog[i].exists
          /\ elog[i].kind \in { "class", "program" }) =>
          /\ elog[i].kind = "program" =>
                (SameUnit(elog[i - 1], elog[i]) /\ IsClassProbe(i - 1) /\ ~elog[i - 1].exists)
          /\ IF i = Len(elog)
             THEN epc = "enrich" /\ einfo = [ type |-> elog[i].kind, context |-> << >> ]
             ELSE /\ SameUnit(elog[i], elog[i + 1])
                  /\ elog[i + 1].op = "enrich" /\ elog[i + 1].kind = elog[i].kind
                  /\ elog[i + 1].context = << >>
  /\ \A i \in 1..Len(elog) :
       (elog[i].idx > 0 /\ Delivered(i)) =>
          LET j == 1 + Cardinality({ k \in 0..(elog[i].idx - 1) : k \in DeliveredUnits })
          IN  /\ j <= Len(eobjects)
              /\ eobjects[j].object_name = elog[i].object_name
              /\ eobjects[j].object_type = elog[i].kind
              /\ elog[i].kind \in { "class", "program" } => eobjects[j].context = << >>

\* the root is an include with a context; of its two discovered names one is
\* reported as a class and one as a program, both without a context
C30_Witness ==
  /\ CombinedReturned
  /\ Len(eresult.objects) = 3
  /\ eresult.objects[1].object_type = "include" /\ eresult.objects[1].context # << >>
  /\ { eresult.objects[2].object_type, eresult.objects[3].object_type } = { "class", "program" }
  /\ eresult.objects[2].context = << >> /\ eresult.objects[3].context = << >>
====
